---- MODULE Spec2Model ----
(***************************************************************************)
(* hashtable<Key, T, Hasher, KeyEqual> of src/src/Hashtable/Hashtable.h:   *)
(* a vector of std::list chains of (key, object) pairs, with insert, find, *)
(* erase, contains_key, operator= and the cross-bucket iterator.           *)
(*                                                                         *)
(* A std::list iterator is modelled as [list, node]: `list` is the index   *)
(* of the bucket whose list it belongs to, `node` the 1-based position of  *)
(* the node in that list, and node 0 is the list's own past-the-end        *)
(* sentinel.  Two list iterators are equal iff they name the same node,    *)
(* so the sentinels of two different buckets are different.                *)
(***************************************************************************)
EXTENDS Integers, Sequences, FiniteSets, TLC

\* ------------------------------------------------------------- bounds
MaxKey == 2
MaxBuckets == 3

Keys == 0..MaxKey
Objects == {"v0", "v1"}
BucketCounts == 1..MaxBuckets
Tables == {"a", "b"}

NoCursor == [t_ |-> "none"]
NoOp ==
    [op |-> "none", t |-> "none", rhs |-> "none", key |-> 0, obj |-> "v0",
     found |-> FALSE, ret |-> NoCursor, dangling |-> 0]

VARIABLES
    ht,        \* ht[t]: the hashtable object t: table_, bucket_count_, count_
    crashed,   \* TRUE once an operation has ended the process
    last,      \* the operation that ran last, with its arguments and result
    it,        \* the cursor of the traversal loop, NoCursor when there is none
    visited,   \* the entries the traversal loop has dereferenced so far
    dirty      \* TRUE when the table changed while the loop held its cursor

vars == <<ht, crashed, last, it, visited, dirty>>

\* ------------------------------------------------------------- helpers
\* std::hash<Key> for an integral Key
h_(key) == key

\* std::equal_to<Key>
equal_to_(x, y) == x = y

\* std::pair<Key, T>
hash_entry_type(key, obj) == [first |-> key, second |-> obj]

\* std::list<hash_entry_type>()
bucket_type == << >>

\* iterator(table, index, entry)
iterator(self, index, entry) ==
    [t_ |-> self.this, index_ |-> index, entry_ |-> entry]

\* list::end() and list::begin() of the list of bucket b
list_end(b) == [list |-> b, node |-> 0]

list_begin(chain, b) ==
    IF chain = << >> THEN list_end(b) ELSE [list |-> b, node |-> 1]

\* list::empty()
empty(chain) == Len(chain) = 0

\* hashtable(buckets)
hashtable(this, buckets) ==
    [this |-> this,
     bucket_count_ |-> buckets,
     count_ |-> 0,
     table_ |-> [i \in 0..(buckets - 1) |-> bucket_type]]

\* bucket_count()
bucket_count(self) == self.bucket_count_

\* count()
count(self) == self.count_

\* return count_/bucket_count_; the quotient of two size_t, then widened to
\* double: the value is the integer quotient
load_factor(self) == self.count_ \div self.bucket_count_

\* at(index): vector::at, which throws std::out_of_range past the size
at_in_range(self, index) == index \in DOMAIN self.table_

at(self, index) == self.table_[index]

\* at(size_t) and operator[](size_t): table_.at(index), which throws
\* std::out_of_range for an index that is not below table_.size()
bucket_at(self, index) ==
    IF at_in_range(self, index)
    THEN [self |-> self, thrown |-> FALSE, bucket |-> at(self, index)]
    ELSE [self |-> self, thrown |-> TRUE, bucket |-> bucket_type]

\* size_t index = h_(key); index %= bucket_count_;
index_of(self, key) == h_(key) % self.bucket_count_

\* the scan "for (it = b->begin(); it != b->end(); it++) if (equal) return":
\* the position of the first entry from pos on whose key is equal, 0 if none
RECURSIVE scan(_, _, _)
scan(chain, key, pos) ==
    IF pos > Len(chain) THEN 0
    ELSE IF equal_to_(chain[pos].first, key) THEN pos
    ELSE scan(chain, key, pos + 1)

\* ------------------------------------------------------------- begin, end
RECURSIVE begin_scan(_, _)
\* begin() testing for the last bucket before looking whether it is empty
begin_scan_StopAtLast(self, index) ==
    IF index = bucket_count(self) - 1
    THEN iterator(self, index, list_end(bucket_count(self) - 1))
    ELSE IF empty(at(self, index))
    THEN begin_scan(self, index + 1)
    ELSE iterator(self, index, list_begin(at(self, index), index))

begin_scan(self, index) ==
    IF empty(at(self, index))
    THEN IF index = bucket_count(self) - 1
         THEN iterator(self, index, list_end(bucket_count(self) - 1))
         ELSE begin_scan(self, index + 1)
    ELSE iterator(self, index, list_begin(at(self, index), index))

begin(self) == begin_scan(self, 0)

RECURSIVE end_scan(_, _)
\* end() with the all-empty case returning the end of the bucket the scan
\* stopped at (bucket 0) instead of the end of the last bucket
end_scan_OwnBucket(self, index) ==
    IF empty(at(self, index))
    THEN IF index = 0
         THEN iterator(self, index, list_end(index))
         ELSE end_scan(self, index - 1)
    ELSE iterator(self, index, list_end(index))

end_scan(self, index) ==
    IF empty(at(self, index))
    THEN IF index = 0
         THEN iterator(self, index, list_end(bucket_count(self) - 1))
         ELSE end_scan(self, index - 1)
    ELSE iterator(self, index, list_end(index))

end(self) == end_scan(self, bucket_count(self) - 1)

\* iterator::operator== compares the list iterators only
iter_eq(x, y) == x.entry_ = y.entry_

\* iterator::operator*: the entry of a cursor that is at a node
deref(self, c) == self.table_[c.entry_.list][c.entry_.node]

\* ------------------------------------------------------------- insert
\* insert with count_++ left out
insert_NoCount(self, key, obj) ==
    LET index == index_of(self, key)
        b == self.table_[index]
        pos == scan(b, key, 1)
        new == [self EXCEPT !.table_[index] = Append(b, hash_entry_type(key, obj))]
    IN  IF pos # 0
        THEN [self |-> self, found |-> TRUE,
              ret |-> iterator(self, index, [list |-> index, node |-> pos])]
        ELSE [self |-> new, found |-> FALSE,
              ret |-> iterator(new, index, [list |-> index, node |-> Len(b) + 1])]

\* insert with push_front instead of push_back
insert_PushFront(self, key, obj) ==
    LET index == index_of(self, key)
        b == self.table_[index]
        pos == scan(b, key, 1)
        new == [self EXCEPT !.table_[index] = <<hash_entry_type(key, obj)>> \o b,
                            !.count_ = @ + 1]
    IN  IF pos # 0
        THEN [self |-> self, found |-> TRUE,
              ret |-> iterator(self, index, [list |-> index, node |-> pos])]
        ELSE [self |-> new, found |-> FALSE,
              ret |-> iterator(new, index, [list |-> index, node |-> 1])]

\* insert as upsert: the object of a duplicate key is replaced
insert_Upsert(self, key, obj) ==
    LET index == index_of(self, key)
        b == self.table_[index]
        pos == scan(b, key, 1)
        upd == [self EXCEPT !.table_[index][pos].second = obj]
        new == [self EXCEPT !.table_[index] = Append(b, hash_entry_type(key, obj)),
                            !.count_ = @ + 1]
    IN  IF pos # 0
        THEN [self |-> upd, found |-> TRUE,
              ret |-> iterator(upd, index, [list |-> index, node |-> pos])]
        ELSE [self |-> new, found |-> FALSE,
              ret |-> iterator(new, index, [list |-> index, node |-> Len(b) + 1])]

\* insert without the scan for a duplicate: the entry is always pushed
insert_NoDupCheck(self, key, obj) ==
    LET index == index_of(self, key)
        b == self.table_[index]
        new == [self EXCEPT !.table_[index] = Append(b, hash_entry_type(key, obj)),
                            !.count_ = @ + 1]
    IN  [self |-> new, found |-> FALSE,
         ret |-> iterator(new, index, [list |-> index, node |-> Len(b) + 1])]

insert(self, key, obj) ==
    LET index == index_of(self, key)
        b == self.table_[index]
        pos == scan(b, key, 1)
    IN  IF pos # 0
        THEN [self |-> self,
              found |-> TRUE,
              ret |-> iterator(self, index, [list |-> index, node |-> pos])]
        ELSE LET new == [self EXCEPT
                           !.table_[index] = Append(b, hash_entry_type(key, obj)),
                           !.count_ = @ + 1]
             IN  [self |-> new,
                  found |-> FALSE,
                  ret |-> iterator(new, index,
                                   [list |-> index, node |-> Len(b) + 1])]

\* ------------------------------------------------------------- find
find(self, key) ==
    LET index == index_of(self, key)
        pos == scan(self.table_[index], key, 1)
    IN  IF pos # 0
        THEN iterator(self, index, [list |-> index, node |-> pos])
        ELSE end(self)

\* ------------------------------------------------------------- contains_key
RECURSIVE contains_scan(_, _, _)
contains_scan(chain, key, pos) ==
    IF pos > Len(chain) THEN FALSE
    ELSE IF equal_to_(key, chain[pos].first) THEN TRUE
    ELSE contains_scan(chain, key, pos + 1)

\* contains_key comparing only the first entry of the chain
contains_key_FirstOnly(self, key) ==
    LET b == self.table_[index_of(self, key)]
    IN  ~empty(b) /\ equal_to_(key, b[1].first)

contains_key(self, key) ==
    contains_scan(self.table_[index_of(self, key)], key, 1)

\* ------------------------------------------------------------- erase
\* The loop of erase has no break: after b->erase(it) the loop's it++ reads
\* the link of the node that was just freed.  `ub` is what that read
\* produces: "stale" when the freed node still holds its old link, so the
\* scan goes on at the successor, "segv" when it does not and the process
\* dies on the next access.
UBOutcomes == {"stale", "segv"}

RECURSIVE erase_scan(_, _, _, _)
erase_scan(chain, key, pos, ub) ==
    IF pos > Len(chain)
    THEN [chain |-> chain, removed |-> 0, dangling |-> 0, fault |-> FALSE]
    ELSE IF equal_to_(key, chain[pos].first)
    THEN LET rest == SubSeq(chain, 1, pos - 1) \o SubSeq(chain, pos + 1, Len(chain))
         IN  IF ub = "segv"
             THEN [chain |-> rest, removed |-> 1, dangling |-> 1, fault |-> TRUE]
             ELSE LET r == erase_scan(rest, key, pos, ub)
                  IN  [r EXCEPT !.removed = @ + 1, !.dangling = @ + 1]
    ELSE erase_scan(chain, key, pos + 1, ub)

\* erase with count_-- after the loop instead of in the branch that erased
erase_AlwaysDecrement(self, key, ub) ==
    LET index == index_of(self, key)
        r == erase_scan(self.table_[index], key, 1, ub)
    IN  [self |-> [self EXCEPT !.table_[index] = r.chain,
                               !.count_ = @ - 1],
         found |-> r.removed > 0,
         dangling |-> r.dangling,
         fault |-> r.fault]

erase(self, key, ub) ==
    LET index == index_of(self, key)
        r == erase_scan(self.table_[index], key, 1, ub)
    IN  [self |-> [self EXCEPT !.table_[index] = r.chain,
                               !.count_ = @ - r.removed],
         found |-> r.removed > 0,
         dangling |-> r.dangling,
         fault |-> r.fault]

\* ------------------------------------------------------------- operator=
\* table_ = index_table(rhs.bucket_count_), then std::copy of rhs.table_
\* operator= with count_ = rhs.count_ left out
assign_KeepCount(self, rhs) ==
    IF self.this # rhs.this
    THEN [self EXCEPT
            !.bucket_count_ = rhs.bucket_count_,
            !.table_ = [i \in 0..(rhs.bucket_count_ - 1) |->
                          IF i \in DOMAIN rhs.table_ THEN rhs.table_[i]
                          ELSE bucket_type]]
    ELSE self

\* operator= with bucket_count_ = rhs.bucket_count_ left out
assign_KeepBucketCount(self, rhs) ==
    IF self.this # rhs.this
    THEN [self EXCEPT
            !.count_ = rhs.count_,
            !.table_ = [i \in 0..(rhs.bucket_count_ - 1) |->
                          IF i \in DOMAIN rhs.table_ THEN rhs.table_[i]
                          ELSE bucket_type]]
    ELSE self

\* operator= that keeps the buckets the left hand side was constructed with
\* and copies the chains of rhs that fit
assign_FixedBuckets(self, rhs) ==
    IF self.this # rhs.this
    THEN LET t == [i \in 0..(self.bucket_count_ - 1) |->
                     IF i \in DOMAIN rhs.table_ THEN rhs.table_[i]
                     ELSE bucket_type]
             RECURSIVE total(_)
             total(i) == IF i \notin DOMAIN t THEN 0 ELSE Len(t[i]) + total(i + 1)
         IN  [self EXCEPT !.count_ = total(0), !.table_ = t]
    ELSE self

\* operator= without the test this != &rhs: the table is emptied before it
\* is copied from
assign_NoSelfCheck(self, rhs) ==
    LET from == IF self.this = rhs.this
                THEN [i \in DOMAIN self.table_ |-> bucket_type]
                ELSE rhs.table_
    IN  [self EXCEPT
            !.bucket_count_ = rhs.bucket_count_,
            !.count_ = rhs.count_,
            !.table_ = [i \in 0..(rhs.bucket_count_ - 1) |->
                          IF i \in DOMAIN from THEN from[i] ELSE bucket_type]]

assign(self, rhs) ==
    IF self.this # rhs.this
    THEN [self EXCEPT
            !.bucket_count_ = rhs.bucket_count_,
            !.count_ = rhs.count_,
            !.table_ = [i \in 0..(rhs.bucket_count_ - 1) |->
                          IF i \in DOMAIN rhs.table_ THEN rhs.table_[i]
                          ELSE bucket_type]]
    ELSE self

\* ------------------------------------------------------------- operator++
\* ++ of a std::list iterator; the past-the-end iterator has no successor
\* (node -1 stands for the singular iterator that results)
list_next(chain, e) ==
    IF e.node < 1 THEN [e EXCEPT !.node = -1]
    ELSE IF e.node < Len(chain) THEN [e EXCEPT !.node = @ + 1]
    ELSE list_end(e.list)

\* do { index_++; if (index_ == bucket_count()) return t_.end(); }
\* while (at(index_).empty()); entry_ = at(index_).begin(); return *this;
RECURSIVE next_bucket(_, _, _)
next_bucket(self, c, index) ==
    IF index = bucket_count(self)
    THEN [cursor |-> [c EXCEPT !.index_ = index], ret |-> end(self),
          thrown |-> FALSE]
    ELSE IF empty(at(self, index))
    THEN next_bucket(self, c, index + 1)
    ELSE LET moved == [c EXCEPT !.index_ = index,
                                !.entry_ = list_begin(at(self, index), index)]
         IN  [cursor |-> moved, ret |-> moved, thrown |-> FALSE]

\* operator++ going to the next bucket without stepping inside the chain
advance_SkipChain(self, c) ==
    IF ~at_in_range(self, c.index_)
    THEN [cursor |-> c, ret |-> c, thrown |-> TRUE]
    ELSE next_bucket(self, [c EXCEPT !.entry_ = list_end(c.index_)], c.index_ + 1)

\* cursor: the cursor ++ was applied to, afterwards; ret: the value returned
advance(self, c) ==
    IF ~at_in_range(self, c.index_)
    THEN [cursor |-> c, ret |-> c, thrown |-> TRUE]
    ELSE IF empty(at(self, c.index_))
    THEN next_bucket(self, c, c.index_ + 1)
    ELSE LET stepped == [c EXCEPT !.entry_ = list_next(at(self, c.index_), @)]
         IN  IF stepped.entry_ # list_end(c.index_)
             THEN [cursor |-> stepped, ret |-> stepped, thrown |-> FALSE]
             ELSE next_bucket(self, stepped, c.index_ + 1)

\* ------------------------------------------------------------- actions
\* `last` names the operation that ran last.  With full = TRUE it also holds
\* the operation's arguments and what it returned; with full = FALSE only
\* the operation and the tables it was applied to.
Record(full, op, t, rhs, key, obj, found, ret, dangling) ==
    IF full
    THEN [op |-> op, t |-> t, rhs |-> rhs, key |-> key, obj |-> obj,
          found |-> found, ret |-> ret, dangling |-> dangling]
    ELSE [op |-> op, t |-> t, rhs |-> rhs, key |-> 0, obj |-> "v0",
          found |-> FALSE, ret |-> NoCursor, dangling |-> 0]

\* The caller's cursor when chain `index` of table t changed (std::list
\* keeps the iterators of every other list valid): a cursor at an entry of
\* another chain is kept, and the entries it visits from there are logged
\* anew; a cursor into the changed chain, or one that is at no entry, is
\* given up.
KeepOrDropCursor(t, changed, index) ==
    IF changed /\ it.t_ = t
    THEN IF it.entry_.list # index /\ it.entry_.node >= 1
         THEN it' = it /\ visited' = << >> /\ dirty' = TRUE
         ELSE it' = NoCursor /\ visited' = << >> /\ dirty' = FALSE
    ELSE UNCHANGED <<it, visited, dirty>>

\* operator= replaces every list of the table: no cursor into it survives
DropCursor(t, changed) ==
    IF changed /\ it.t_ = t
    THEN it' = NoCursor /\ visited' = << >> /\ dirty' = FALSE
    ELSE UNCHANGED <<it, visited, dirty>>

Insert(t, key, obj, full) ==
    /\ ~crashed
    /\ LET r == insert(ht[t], key, obj)
       IN  /\ ht' = [ht EXCEPT ![t] = r.self]
           /\ last' = Record(full, "insert", t, t, key, obj, r.found, r.ret, 0)
           /\ KeepOrDropCursor(t, r.self # ht[t], index_of(ht[t], key))
    /\ UNCHANGED crashed

Erase(t, key, full) ==
    /\ ~crashed
    /\ \E ub \in UBOutcomes :
         LET r == erase(ht[t], key, ub)
         IN  /\ ht' = [ht EXCEPT ![t] = r.self]
             /\ crashed' = r.fault
             /\ last' = Record(full, "erase", t, t, key, "v0", r.found,
                               NoCursor, r.dangling)
             /\ KeepOrDropCursor(t, r.self # ht[t], index_of(ht[t], key))

Assign(t, rhs) ==
    /\ ~crashed
    /\ ht' = [ht EXCEPT ![t] = assign(ht[t], ht[rhs])]
    /\ last' = Record(FALSE, "assign", t, rhs, 0, "v0", FALSE, NoCursor, 0)
    /\ DropCursor(t, t # rhs)
    /\ UNCHANGED crashed

\* for (it = begin(); it != end(); ++it) visit(*it);
Begin(t) ==
    /\ ~crashed
    /\ it' = begin(ht[t])
    /\ visited' = << >>
    /\ dirty' = FALSE
    /\ UNCHANGED <<ht, crashed, last>>

Step ==
    /\ ~crashed
    /\ it # NoCursor
    /\ ~iter_eq(it, end(ht[it.t_]))
    /\ visited' = Append(visited, deref(ht[it.t_], it))
    /\ it' = advance(ht[it.t_], it).cursor
    /\ UNCHANGED <<ht, crashed, last, dirty>>

\* ------------------------------------------------------------- specifications
\* One table, every object: insert, erase and the traversal loop.
Init ==
    /\ \E na \in BucketCounts :
         ht = [t \in Tables |-> hashtable(t, IF t = "a" THEN na ELSE 1)]
    /\ crashed = FALSE
    /\ last = NoOp
    /\ it = NoCursor
    /\ visited = << >>
    /\ dirty = FALSE

Next ==
    \/ \E key \in Keys, obj \in Objects : Insert("a", key, obj, TRUE)
    \/ \E key \in Keys : Erase("a", key, TRUE)
    \/ Begin("a")
    \/ Step

Spec == Init /\ [][Next]_vars

\* Two tables of any two bucket counts, assigned to each other and to
\* themselves between inserts and erases.
InitAssign ==
    /\ \E na \in BucketCounts, nb \in BucketCounts :
         ht = [t \in Tables |-> hashtable(t, IF t = "a" THEN na ELSE nb)]
    /\ crashed = FALSE
    /\ last = NoOp
    /\ it = NoCursor
    /\ visited = << >>
    /\ dirty = FALSE

NextAssign ==
    \/ \E t \in Tables, key \in Keys : Insert(t, key, "v0", FALSE)
    \/ \E t \in Tables, key \in Keys : Erase(t, key, FALSE)
    \/ \E t \in Tables, rhs \in Tables : Assign(t, rhs)

SpecAssign == InitAssign /\ [][NextAssign]_vars

\* One table of 1..MaxBuckets + 1 buckets and the keys 1, 3 and 5, which
\* over 4 buckets hash to the indices 1, 3 and 1.
ScenarioKeys == {1, 3, 5}

InitOrder ==
    /\ \E na \in 1..(MaxBuckets + 1) :
         ht = [t \in Tables |-> hashtable(t, IF t = "a" THEN na ELSE 1)]
    /\ crashed = FALSE
    /\ last = NoOp
    /\ it = NoCursor
    /\ visited = << >>
    /\ dirty = FALSE

NextOrder ==
    \/ \E key \in ScenarioKeys, obj \in Objects : Insert("a", key, obj, TRUE)
    \/ \E key \in ScenarioKeys : Erase("a", key, TRUE)
    \/ Begin("a")
    \/ Step

SpecOrder == InitOrder /\ [][NextOrder]_vars

\* ------------------------------------------------------------- properties
\* the places (bucket, position) of a table that hold an entry
Places(self) ==
    UNION {{<<i, pos>> : pos \in 1..Len(self.table_[i])} : i \in DOMAIN self.table_}

EntryAt(self, pl) == self.table_[pl[1]][pl[2]]

\* key is the key of an entry somewhere in the table
Stored(self, key) == \E pl \in Places(self) : EntryAt(self, pl).first = key

RECURSIVE SumOfLengths(_, _)
SumOfLengths(self, i) ==
    IF i \notin DOMAIN self.table_ THEN 0
    ELSE Len(self.table_[i]) + SumOfLengths(self, i + 1)

\* C1: after insert(k, v) of a key k that was not stored, find(k) is a cursor
\* different from end() whose entry is (k, v), and size has grown by one.
C1_InsertFresh ==
    [][(last'.op = "insert" /\ ~Stored(ht[last'.t], last'.key))
        => LET self == ht'[last'.t]
               c == find(self, last'.key)
           IN  /\ ~iter_eq(c, end(self))
               /\ deref(self, c) = hash_entry_type(last'.key, last'.obj)
               /\ count(self) = count(ht[last'.t]) + 1]_vars

C1_Witness ==
    /\ last.op = "insert"
    /\ ~last.found
    /\ ~crashed
    /\ count(ht[last.t]) = 3
    /\ last.ret.entry_.node = 2

\* C2: insert(k, v1) of a key stored with v0 leaves the table as it was (every
\* chain, size), find(k) still yields v0, and the cursor returned is at the
\* entry that was there.
C2_InsertDuplicate ==
    [][(last'.op = "insert" /\ Stored(ht[last'.t], last'.key))
        => LET old == ht[last'.t]
               self == ht'[last'.t]
           IN  /\ self.table_ = old.table_
               /\ count(self) = count(old)
               /\ deref(self, find(self, last'.key))
                    = deref(old, find(old, last'.key))
               /\ iter_eq(last'.ret, find(old, last'.key))
               /\ deref(self, last'.ret).first = last'.key]_vars

C2_Witness ==
    /\ last.op = "insert"
    /\ last.found
    /\ last.ret.entry_.node = 2
    /\ deref(ht[last.t], last.ret).second # last.obj

\* C3: after erase(k) of a stored key k, find(k) is end(), size is one less,
\* and every other stored key is still found with the entry it had.
C3_ErasePresent ==
    [][(last'.op = "erase" /\ Stored(ht[last'.t], last'.key))
        => LET old == ht[last'.t]
               self == ht'[last'.t]
           IN  /\ ~crashed'
               /\ iter_eq(find(self, last'.key), end(self))
               /\ count(self) = count(old) - 1
               /\ \A k \in Keys \ {last'.key} :
                    Stored(old, k)
                      => /\ ~iter_eq(find(self, k), end(self))
                         /\ deref(self, find(self, k))
                              = deref(old, find(old, k))]_vars

\* C4: a traversal from begin() by ++ until the cursor equals end() has
\* visited exactly size entries, every stored entry exactly once.
C4_TraversalComplete ==
    (~crashed /\ it # NoCursor /\ ~dirty /\ iter_eq(it, end(ht[it.t_])))
      => LET self == ht[it.t_]
         IN  /\ Len(visited) = count(self)
             /\ \A pl \in Places(self) :
                  Cardinality({j \in 1..Len(visited) :
                                 visited[j] = EntryAt(self, pl)}) = 1
             /\ \A j \in 1..Len(visited) :
                  \E pl \in Places(self) : visited[j] = EntryAt(self, pl)

C4_Witness ==
    /\ ~crashed
    /\ it # NoCursor
    /\ ~dirty
    /\ iter_eq(it, end(ht[it.t_]))
    /\ bucket_count(ht[it.t_]) = 3
    /\ Len(ht[it.t_].table_[0]) = 1
    /\ empty(ht[it.t_].table_[1])
    /\ Len(ht[it.t_].table_[2]) = 1
    /\ Len(visited) = 2
    /\ last.op = "erase"
    /\ last.found

\* C5: size equals the sum of the lengths of all chains.
C5_SizeIsSumOfChains ==
    ~crashed => \A t \in Tables : count(ht[t]) = SumOfLengths(ht[t], 0)

C5_Witness ==
    /\ ~crashed
    /\ last.op = "assign"
    /\ last.t # last.rhs
    /\ count(ht[last.t]) = 3
    /\ bucket_count(ht[last.t]) = 2

\* C6: every stored entry is in the chain at index hash(key) mod bucket_count.
C6_EntryInItsBucket ==
    ~crashed =>
      \A t \in Tables : \A pl \in Places(ht[t]) :
        pl[1] = h_(EntryAt(ht[t], pl).first) % bucket_count(ht[t])

C6_Witness ==
    /\ ~crashed
    /\ last.op = "assign"
    /\ last.t # last.rhs
    /\ bucket_count(ht[last.t]) = 2
    /\ Len(ht[last.t].table_[0]) = 2
    /\ Len(ht[last.t].table_[1]) = 1

\* C7: no two entries of a table have equal keys.
C7_NoDuplicateKeys ==
    ~crashed =>
      \A t \in Tables : \A p1 \in Places(ht[t]), p2 \in Places(ht[t]) :
        equal_to_(EntryAt(ht[t], p1).first, EntryAt(ht[t], p2).first) => p1 = p2

C7_Witness ==
    /\ ~crashed
    /\ last.op = "insert"
    /\ count(ht[last.t]) = 3
    /\ bucket_count(ht[last.t]) = 1
    /\ Len(ht[last.t].table_[0]) = 3

\* C8: erase(k) of a key that is not stored changes neither size nor any
\* chain, and ends normally.
C8_EraseAbsent ==
    [][(last'.op = "erase" /\ ~Stored(ht[last'.t], last'.key))
        => /\ ht'[last'.t] = ht[last'.t]
           /\ ~crashed']_vars

C8_Witness ==
    /\ ~crashed
    /\ last.op = "erase"
    /\ ~last.found
    /\ count(ht[last.t]) = 2
    /\ Len(ht[last.t].table_[index_of(ht[last.t], last.key)]) = 2

\* C9: contains_key(k) is true exactly when find(k) differs from end().
C9_ContainsIffFound ==
    ~crashed =>
      \A t \in Tables : \A k \in Keys :
        contains_key(ht[t], k) <=> ~iter_eq(find(ht[t], k), end(ht[t]))

C9_Witness ==
    /\ ~crashed
    /\ bucket_count(ht["a"]) = 2
    /\ contains_key(ht["a"], 2)
    /\ find(ht["a"], 2).entry_.node = 2
    /\ ~contains_key(ht["a"], 1)

\* C10: on a table of size 0, begin() equals end().
C10_EmptyBeginIsEnd ==
    ~crashed =>
      \A t \in Tables :
        (count(ht[t]) = 0 /\ bucket_count(ht[t]) >= 1)
          => iter_eq(begin(ht[t]), end(ht[t]))

C10_Witness ==
    /\ ~crashed
    /\ count(ht["a"]) = 0
    /\ bucket_count(ht["a"]) = 3
    /\ last.op = "erase"
    /\ last.found
    /\ iter_eq(begin(ht["a"]), end(ht["a"]))

\* the entries of the buckets i, i + 1, ... in bucket order, each chain in
\* its own order
RECURSIVE Flatten(_, _)
Flatten(self, i) ==
    IF i \notin DOMAIN self.table_ THEN << >>
    ELSE self.table_[i] \o Flatten(self, i + 1)

IsPrefix(s, t) == Len(s) <= Len(t) /\ SubSeq(t, 1, Len(s)) = s

\* C11: a traversal visits the entries in ascending bucket index and, inside
\* a bucket, in insertion order: a new entry goes behind the entries its
\* chain holds, what the loop has visited is always the front of the chains
\* laid end to end, and is all of them once the cursor equals end().
C11_IterationOrder ==
    /\ [][(last'.op = "insert" /\ ~Stored(ht[last'.t], last'.key))
           => LET index == h_(last'.key) % bucket_count(ht[last'.t])
              IN  ht'[last'.t].table_[index]
                    = Append(ht[last'.t].table_[index],
                             hash_entry_type(last'.key, last'.obj))]_vars
    /\ []((~crashed /\ it # NoCursor /\ ~dirty)
           => /\ IsPrefix(visited, Flatten(ht[it.t_], 0))
              /\ iter_eq(it, end(ht[it.t_]))
                   => visited = Flatten(ht[it.t_], 0))

C11_Witness ==
    /\ ~crashed
    /\ it # NoCursor
    /\ ~dirty
    /\ bucket_count(ht["a"]) = 4
    /\ count(ht["a"]) = 3
    /\ ht["a"].table_[1] = <<hash_entry_type(1, "v0"), hash_entry_type(5, "v1")>>
    /\ ht["a"].table_[3] = <<hash_entry_type(3, "v0")>>
    /\ iter_eq(it, end(ht["a"]))
    /\ visited = <<hash_entry_type(1, "v0"), hash_entry_type(5, "v1"),
                   hash_entry_type(3, "v0")>>

\* while (!(c == end())) { visit(*c); ++c; } of at most `fuel` rounds:
\* the entries visited, and whether the loop ended
RECURSIVE Walk(_, _, _)
Walk(self, c, fuel) ==
    IF iter_eq(c, end(self)) THEN [ended |-> TRUE, seq |-> << >>]
    ELSE IF fuel = 0 \/ advance(self, c).thrown
    THEN [ended |-> FALSE, seq |-> << >>]
    ELSE LET w == Walk(self, advance(self, c).cursor, fuel - 1)
         IN  [w EXCEPT !.seq = <<deref(self, c)>> \o @]

\* the entry of a cursor and the entries behind it in iteration order
Rest(self, c) ==
    SubSeq(self.table_[c.entry_.list], c.entry_.node,
           Len(self.table_[c.entry_.list]))
      \o Flatten(self, c.entry_.list + 1)

\* C12: erase(k) of a stored key k leaves a cursor at an entry of another
\* chain as it was: erase returns, the cursor refers to the same entry, and
\* advancing it visits exactly the entries from it onwards and then equals
\* end() of the table after the erase.
C12_CursorSurvivesErase ==
    [][(/\ last'.op = "erase"
        /\ Stored(ht[last'.t], last'.key)
        /\ it # NoCursor
        /\ it.t_ = last'.t
        /\ it.entry_.node >= 1
        /\ it.entry_.list # index_of(ht[last'.t], last'.key))
        => LET self == ht'[last'.t]
           IN  /\ ~crashed'
               /\ it' = it
               /\ deref(self, it') = deref(ht[last'.t], it)
               /\ Walk(self, it', MaxKey + 2)
                    = [ended |-> TRUE, seq |-> Rest(self, it')]]_vars

\* the number of chains of a table
chains(self) == Cardinality(DOMAIN self.table_)

\* C13 as stated: the number of chains and bucket_count() of a table never
\* change, whatever insert, erase and operator= are applied.
C13_BucketCountFixed ==
    [][\A t \in Tables :
         /\ bucket_count(ht'[t]) = bucket_count(ht[t])
         /\ chains(ht'[t]) = chains(ht[t])]_vars

\* C13: the number of chains always equals bucket_count(); insert and erase
\* leave both as they are, and a = b sets a's to those of b and leaves b's.
C13_BucketCountFollowsAssign ==
    [][\A t \in Tables :
         /\ chains(ht[t]) = bucket_count(ht[t])
         /\ chains(ht'[t]) = bucket_count(ht'[t])
         /\ last'.op \in {"insert", "erase"}
              => bucket_count(ht'[t]) = bucket_count(ht[t])
         /\ last'.op = "assign"
              => bucket_count(ht'[t])
                   = bucket_count(ht[IF t = last'.t THEN last'.rhs ELSE t])]_vars

C13_Witness ==
    /\ last.op = "assign"
    /\ last.t = "a"
    /\ last.rhs = "b"
    /\ bucket_count(ht["a"]) = 2
    /\ chains(ht["a"]) = 2
    /\ count(ht["a"]) = 3

\* C14: a = b with a and b distinct leaves a with the chains, the size and
\* the bucket count b had, so with no entry that b did not hold, and leaves
\* b as it was; a = a changes nothing.
C14_AssignCopies ==
    [][last'.op = "assign"
        => IF last'.t # last'.rhs
           THEN /\ ht'[last'.t].table_ = ht[last'.rhs].table_
                /\ count(ht'[last'.t]) = count(ht[last'.rhs])
                /\ bucket_count(ht'[last'.t]) = bucket_count(ht[last'.rhs])
                /\ \A pl \in Places(ht'[last'.t]) :
                     /\ pl \in Places(ht[last'.rhs])
                     /\ EntryAt(ht'[last'.t], pl) = EntryAt(ht[last'.rhs], pl)
                /\ ht'[last'.rhs] = ht[last'.rhs]
           ELSE ht' = ht]_vars

C14_Witness ==
    /\ last.op = "assign"
    /\ last.t = "b"
    /\ last.rhs = "a"
    /\ ht["b"].table_ = ht["a"].table_
    /\ bucket_count(ht["b"]) = 3
    /\ count(ht["b"]) = 2
    /\ Len(ht["b"].table_[2]) = 1

\* C15: load_factor() is the exact ratio of size() to bucket_count():
\* load_factor() * bucket_count() = size() for every table, and
\* load_factor() is not zero when the table holds an entry.
C15_LoadFactorExact ==
    ~crashed =>
      \A t \in Tables :
        /\ load_factor(ht[t]) * bucket_count(ht[t]) = count(ht[t])
        /\ count(ht[t]) > 0 => load_factor(ht[t]) # 0

\* the last bucket holds an entry and no other bucket does
OnlyLastBucket(self) ==
    /\ ~empty(self.table_[bucket_count(self) - 1])
    /\ \A i \in DOMAIN self.table_ :
         i # bucket_count(self) - 1 => empty(self.table_[i])

\* C16: on a table whose only non-empty bucket is the last one, begin() is
\* the cursor (bucket_count - 1, first position of that chain) and differs
\* from end().
C16_BeginOnlyLastBucket ==
    ~crashed =>
      \A t \in Tables :
        OnlyLastBucket(ht[t])
          => LET n == bucket_count(ht[t]) - 1
             IN  /\ begin(ht[t]) = iterator(ht[t], n, [list |-> n, node |-> 1])
                 /\ ~iter_eq(begin(ht[t]), end(ht[t]))

C16_Witness ==
    /\ ~crashed
    /\ bucket_count(ht["a"]) = 3
    /\ OnlyLastBucket(ht["a"])
    /\ it = begin(ht["a"])
    /\ it.index_ = 2
    /\ visited = << >>
    /\ ~dirty

\* C17: bucket_at(index) returns the chain at index for every index below
\* bucket_count() and fails with out_of_range for every other index, the
\* table being left as it is; also for a table that was assigned to.
C17_BucketAtChecked ==
    ~crashed =>
      \A t \in Tables : \A index \in 0..(MaxBuckets + 1) :
        LET r == bucket_at(ht[t], index)
        IN  /\ r.self = ht[t]
            /\ r.thrown <=> index >= bucket_count(ht[t])
            /\ ~r.thrown => r.bucket = ht[t].table_[index]

C17_Witness ==
    /\ ~crashed
    /\ last.op = "assign"
    /\ last.t = "a"
    /\ last.rhs = "b"
    /\ bucket_count(ht["a"]) = 1
    /\ count(ht["a"]) = 2
    /\ bucket_at(ht["a"], 0) = [self |-> ht["a"], thrown |-> FALSE,
                                bucket |-> ht["b"].table_[0]]
    /\ bucket_at(ht["a"], 1).thrown

\* C18: ++ applied to a cursor at the last entry of the table leaves that
\* cursor as end() is, in chain position and in bucket index, and after
\* every ++ the bucket index of the cursor is in 0..bucket_count - 1.
\* (The steps that lengthen `visited` are the steps of ++.)
C18_AdvanceToCanonicalEnd ==
    [][Len(visited') = Len(visited) + 1
        => LET self == ht[it.t_]
           IN  /\ it'.index_ \in 0..(bucket_count(self) - 1)
               /\ Len(Rest(self, it)) = 1 => it' = end(self)]_vars

\* C19: erase(k) stops scanning at the first match: it never applies ++ to
\* the position of the entry it removed, removes at most one entry and
\* lowers size by at most one.
C19_EraseStopsAfterMatch ==
    [][(last'.op = "erase" /\ Stored(ht[last'.t], last'.key))
        => /\ last'.dangling = 0
           /\ count(ht'[last'.t]) >= count(ht[last'.t]) - 1
           /\ SumOfLengths(ht'[last'.t], 0) >= SumOfLengths(ht[last'.t], 0) - 1]_vars

\* ------------------------------------------------------------- bucket scans
\* The loops of begin(), end() and operator++ step by step, for at most
\* `fuel` rounds: idx lists the indices handed to at(), ended tells that the
\* loop was left (by return, or by the exception of at()), ret is the cursor
\* returned.  Each loop has its own rounds.
Fuel == MaxBuckets + 2

Traced(index, r) == [r EXCEPT !.idx = <<index>> \o @]

RECURSIVE begin_trace(_, _, _)
begin_trace(self, index, fuel) ==
    IF fuel = 0
    THEN [ended |-> FALSE, idx |-> << >>, ret |-> NoCursor]
    ELSE IF ~at_in_range(self, index)
    THEN [ended |-> TRUE, idx |-> <<index>>, ret |-> NoCursor]
    ELSE IF empty(at(self, index))
    THEN IF index = bucket_count(self) - 1
         THEN [ended |-> TRUE, idx |-> <<index, bucket_count(self) - 1>>,
               ret |-> iterator(self, index, list_end(bucket_count(self) - 1))]
         ELSE Traced(index, begin_trace(self, index + 1, fuel - 1))
    ELSE [ended |-> TRUE, idx |-> <<index, index>>,
          ret |-> iterator(self, index, list_begin(at(self, index), index))]

RECURSIVE end_trace(_, _, _)
\* end() without the test index == 0
end_trace_NoZeroTest(self, index, fuel) ==
    IF fuel = 0
    THEN [ended |-> FALSE, idx |-> << >>, ret |-> NoCursor]
    ELSE IF ~at_in_range(self, index)
    THEN [ended |-> TRUE, idx |-> <<index>>, ret |-> NoCursor]
    ELSE IF empty(at(self, index))
    THEN Traced(index, end_trace(self, index - 1, fuel - 1))
    ELSE [ended |-> TRUE, idx |-> <<index, index>>,
          ret |-> iterator(self, index, list_end(index))]

end_trace(self, index, fuel) ==
    IF fuel = 0
    THEN [ended |-> FALSE, idx |-> << >>, ret |-> NoCursor]
    ELSE IF ~at_in_range(self, index)
    THEN [ended |-> TRUE, idx |-> <<index>>, ret |-> NoCursor]
    ELSE IF empty(at(self, index))
    THEN IF index = 0
         THEN [ended |-> TRUE, idx |-> <<index, bucket_count(self) - 1>>,
               ret |-> iterator(self, index, list_end(bucket_count(self) - 1))]
         ELSE Traced(index, end_trace(self, index - 1, fuel - 1))
    ELSE [ended |-> TRUE, idx |-> <<index, index>>,
          ret |-> iterator(self, index, list_end(index))]

\* do { index_++; if (index_ == bucket_count()) return t_.end(); }
\* while (at(index_).empty()); entry_ = at(index_).begin();
RECURSIVE next_bucket_trace(_, _, _)
next_bucket_trace(self, index, fuel) ==
    IF fuel = 0
    THEN [ended |-> FALSE, idx |-> << >>, ret |-> NoCursor]
    ELSE IF index = bucket_count(self)
    THEN end_trace(self, bucket_count(self) - 1, Fuel)
    ELSE IF ~at_in_range(self, index)
    THEN [ended |-> TRUE, idx |-> <<index>>, ret |-> NoCursor]
    ELSE IF empty(at(self, index))
    THEN Traced(index, next_bucket_trace(self, index + 1, fuel - 1))
    ELSE [ended |-> TRUE, idx |-> <<index, index>>,
          ret |-> iterator(self, index, list_begin(at(self, index), index))]

advance_trace(self, c, fuel) ==
    IF ~at_in_range(self, c.index_)
    THEN [ended |-> TRUE, idx |-> <<c.index_>>, ret |-> NoCursor]
    ELSE IF empty(at(self, c.index_))
    THEN Traced(c.index_, next_bucket_trace(self, c.index_ + 1, fuel))
    ELSE IF list_next(at(self, c.index_), c.entry_) # list_end(c.index_)
    THEN [ended |-> TRUE, idx |-> <<c.index_, c.index_>>,
          ret |-> [c EXCEPT !.entry_ = list_next(at(self, c.index_), @)]]
    ELSE Traced(c.index_,
                Traced(c.index_, next_bucket_trace(self, c.index_ + 1, fuel)))

\* the loop was left and every index handed to at() is one of the table
InBounds(self, r) ==
    /\ r.ended
    /\ \A i \in 1..Len(r.idx) : r.idx[i] \in 0..(bucket_count(self) - 1)

====
